---- MODULE Spec2Model ----
(***************************************************************************)
(* Blue Data Analytics: the data pipeline of the repository's backends.    *)
(*                                                                         *)
(* Each component of the repository is modelled by its own group of        *)
(* variables and its own specification:                                    *)
(*   SpecApp   backend/app.py        load_and_process_data, train_models,  *)
(*                                   /api/scheduling                       *)
(*   SpecDP    backend/utils/helpers/data_processor.py   DataProcessor     *)
(*   SpecML    scripts/train.py      BlueDataML                            *)
(*   SpecFast  backend/app_fast.py   the mock data and /api/scheduling     *)
(*   SpecTrain backend/utils/helpers/model_trainer.py  ModelTrainer, and   *)
(*             backend/app_real.py   train_models, /api/predictions        *)
(*                                                                         *)
(* Tables are pandas DataFrames: a record [cols, rows] whose rows are      *)
(* records holding exactly the columns of cols.  A numeric or date cell is *)
(* a tagged tuple: <<"num", v>>, <<"nan">> (NaN / NaT / missing) or        *)
(* <<"str">> (text that is no number).  A missing text cell is NA.         *)
(***************************************************************************)
EXTENDS Integers, Sequences, FiniteSets, TLC

VARIABLES
    clock,      \* the ambient clock (datetime.now()), in whole days
    df,         \* backend/app.py: the global df
    models,     \* backend/app.py: the global models (its keys)
    app_pc,     \* backend/app.py: position in __main__ / load_and_process_data
    sched,      \* backend/app.py: the last /api/scheduling response
    summary,    \* backend/app.py: the last /api/data/summary response
    preds,      \* backend/app.py: the last /api/predictions response
    fitted,     \* backend/app.py: the columns each stored model was fitted on
    dp_df,      \* DataProcessor.df
    dp_state,   \* DataProcessor: what its caller has run so far
    dp_resp,    \* DataProcessor: the result of the last get_* call
    ml_df,          \* scripts/train.py: BlueDataML.df
    ml_models,      \* scripts/train.py: BlueDataML.models (its keys)
    ml_predictions, \* scripts/train.py: BlueDataML.predictions
    ml_state,       \* scripts/train.py: how far run_pipeline has come
    ml_kpi,         \* scripts/train.py: BlueDataML.kpi_overview
    ml_snapshot,    \* scripts/train.py: what save_snapshots has written
    fast_data,  \* backend/app_fast.py: the module-level data
    fast_resp,  \* backend/app_fast.py: the last /api/scheduling response
    mt_df,      \* ModelTrainer: the df handed to the last train_all_models
    mt_models,  \* ModelTrainer.models (its keys)
    mt_result,  \* ModelTrainer: what the last train_all_models returned
    real_df,     \* backend/app_real.py: the global df
    real_models, \* backend/app_real.py: the global models (its keys)
    real_state,  \* backend/app_real.py: position in __main__
    real_resp,   \* backend/app_real.py: the last /api/predictions response
    an_df,        \* data_analysis_phase1_real.py: BlueDataAnalyzer.df
    an_insights,  \* BlueDataAnalyzer.insights['service_performance']
    an_state,     \* data_analysis_phase1_real.py: position in main()
    pr_df,        \* predictive_analysis_phase2_real.py: the predictor's df
    pr_processed, \* predictive_analysis_phase2_real.py: df_processed
    pr_state,     \* predictive_analysis_phase2_real.py: position in the run
    etl_df,        \* scripts/etl.py: BlueDataETL.df
    etl_processed, \* scripts/etl.py: BlueDataETL.processed_df
    etl_state,     \* scripts/etl.py: how far run_pipeline has come
    etl_summary,   \* scripts/etl.py: what generate_summary_stats returned
    ba_df,       \* BusinessAnalyzer.df
    ba_results,  \* BusinessAnalyzer.analysis_results
    ba_ret,      \* BusinessAnalyzer: the last call and what it returned
    main_df,     \* backend/app/main.py: data_processor.df
    main_models, \* backend/app/main.py: model_trainer.models (its keys)
    main_loaded, \* backend/app/main.py: the model files load_models has read
    main_ret,    \* backend/app/main.py: what initialize_app returned
    main_sched   \* backend/app/main.py: the last /api/scheduling response

appVars == <<df, models, app_pc, sched, summary, preds, fitted>>
dpVars == <<dp_df, dp_state, dp_resp>>
mlVars == <<ml_df, ml_models, ml_predictions, ml_state, ml_kpi, ml_snapshot>>
fastVars == <<fast_data, fast_resp>>
mtVars == <<mt_df, mt_models, mt_result>>
realVars == <<real_df, real_models, real_state, real_resp>>
trainVars == <<mtVars, realVars>>
anVars == <<an_df, an_insights, an_state>>
prVars == <<pr_df, pr_processed, pr_state>>
etlVars == <<etl_df, etl_processed, etl_state, etl_summary>>
baVars == <<ba_df, ba_results, ba_ret>>
mainVars == <<main_df, main_models, main_loaded, main_ret, main_sched>>
svcVars == <<baVars, mainVars>>
scriptVars == <<anVars, prVars, etlVars, svcVars>>
vars == <<clock, appVars, dpVars, mlVars, fastVars, scriptVars, trainVars>>

(***************************************************************************)
(* Bounds of the model.                                                    *)
(***************************************************************************)
MaxRows == 2
MaxTicks == 1

(***************************************************************************)
(* Cells and tables.                                                       *)
(***************************************************************************)
NaN == <<"nan">>
Str == <<"str">>
Num(v) == <<"num", v>>
IsNum(c) == c[1] = "num"
Val(c) == c[2]
NA == "<NA>"
None == [none |-> TRUE]
NoResp == [none |-> TRUE]

Table(cols, rows) == [cols |-> cols, rows |-> rows]

SeqsUpTo(S, n) == UNION {[1..k -> S] : k \in 0..n}

Range(s) == {s[i] : i \in 1..Len(s)}

Min(a, b) == IF a < b THEN a ELSE b

\* pandas fillna(0) on a numeric column
FillNa(c, v) == IF c = NaN THEN Num(v) ELSE c

(***************************************************************************)
(* backend/app.py                                                          *)
(***************************************************************************)
\* line 35: the columns of dropna(subset=...)
AppKeyCols == {"Outlet_Name", "Outlet_Type", "Location"}
AppNumCols == {"Trap_Efficiency", "Missed_Cleanings"}
AppRawCols == AppKeyCols \cup AppNumCols \cup {"Last_Cleaning_Date"}

\* The rows Blue-data2.xlsx may hold: a well-formed row changed in one
\* column, with and without the date column.
AppDomain ==
    [Outlet_Name : {"o1", "o2", NA},
     Outlet_Type : {"Restaurant", NA},
     Location : {"Al Quoz", NA},
     Last_Cleaning_Date : {Num(-200), Num(-150), NaN, Str},
     Trap_Efficiency : {Num(75), NaN},
     Missed_Cleanings : {Num(2), NaN}]

AppBaseRow ==
    [Outlet_Name |-> "o1", Outlet_Type |-> "Restaurant", Location |-> "Al Quoz",
     Last_Cleaning_Date |-> Num(-200), Trap_Efficiency |-> Num(75),
     Missed_Cleanings |-> Num(2)]

AppRawRows ==
    {r \in AppDomain :
        \E c \in DOMAIN r : \A x \in DOMAIN r \ {c} : r[x] = AppBaseRow[x]}

AppRawRowsNoDate ==
    {[c \in DOMAIN r \ {"Last_Cleaning_Date"} |-> r[c]] :
        r \in {x \in AppRawRows : x.Last_Cleaning_Date = Num(-200)}}

AppFiles ==
    {Table(AppRawCols, rows) : rows \in SeqsUpTo(AppRawRows, MaxRows)}
    \cup {Table(AppRawCols \ {"Last_Cleaning_Date"}, rows) :
             rows \in SeqsUpTo(AppRawRowsNoDate, MaxRows)}

\* line 32: df = pd.read_excel(...); an unreadable file raises before the
\* assignment and load_and_process_data returns False.
AppRead ==
    /\ app_pc = "main"
    /\ \/ \E f \in AppFiles : df' = f /\ app_pc' = "read"
       \/ df' = df /\ app_pc' = "load_failed"
    /\ UNCHANGED <<clock, models, sched, summary, preds, fitted, dpVars, mlVars, fastVars, scriptVars, trainVars>>

\* line 35: df = df.dropna(subset=[...])
AppDropna ==
    /\ app_pc = "read"
    /\ df' = [df EXCEPT !.rows =
                SelectSeq(@, LAMBDA r : \A c \in AppKeyCols : r[c] # NA)]
    /\ app_pc' = "dropna"
    /\ UNCHANGED <<clock, models, sched, summary, preds, fitted, dpVars, mlVars, fastVars, scriptVars, trainVars>>

\* lines 38-43: pd.to_datetime(df[col], errors='coerce') on every column whose
\* name holds "date": text that is no date becomes NaT.
ToDatetime(c) == IF c = Str THEN NaN ELSE c

AppDateCols(cols) == cols \cap {"Last_Cleaning_Date"}

AppToDatetime ==
    /\ app_pc = "dropna"
    /\ df' = [df EXCEPT !.rows =
                [i \in 1..Len(@) |->
                   [c \in DOMAIN @[i] |->
                      IF c \in AppDateCols(df.cols) THEN ToDatetime(@[i][c])
                      ELSE @[i][c]]]]
    /\ app_pc' = "dated"
    /\ UNCHANGED <<clock, models, sched, summary, preds, fitted, dpVars, mlVars, fastVars, scriptVars, trainVars>>

\* lines 46-47: df[numeric_columns] = df[numeric_columns].fillna(0); a date
\* column is not numeric and keeps its NaT.
AppFillRow(r) ==
    [c \in DOMAIN r |-> IF c \in AppNumCols THEN FillNa(r[c], 0) ELSE r[c]]

AppFillna ==
    /\ app_pc = "dated"
    /\ df' = [df EXCEPT !.rows = [i \in 1..Len(@) |-> AppFillRow(@[i])]]
    /\ app_pc' = "filled"
    /\ UNCHANGED <<clock, models, sched, summary, preds, fitted, dpVars, mlVars, fastVars, scriptVars, trainVars>>

\* line 50: (datetime.now() - df['Last_Cleaning_Date']).dt.days; NaT gives NaN.
DaysSince(now, date) == IF IsNum(date) THEN Num(now - Val(date)) ELSE NaN

\* lines 50-51: a table without the date column raises KeyError here, after
\* the global df has been replaced by the cleaned table.
AppDerive ==
    /\ app_pc = "filled"
    /\ IF "Last_Cleaning_Date" \in df.cols
       THEN /\ df' = Table(df.cols \cup {"Days_Since_Last_Cleaning"},
                       [i \in 1..Len(df.rows) |->
                          df.rows[i] @@
                          [Days_Since_Last_Cleaning |->
                             DaysSince(clock, df.rows[i].Last_Cleaning_Date)]])
            /\ app_pc' = "derived"
       ELSE /\ df' = df
            /\ app_pc' = "load_failed"
    /\ UNCHANGED <<clock, models, sched, summary, preds, fitted, dpVars, mlVars, fastVars, scriptVars, trainVars>>

\* lines 54-58, in tenths of a point:
\* Days*0.3 + (100 - Trap_Efficiency)*0.4 + (Missed_Cleanings*10)*0.3
RiskScoreCapped(days, eff, missed) ==
    3 * Min(days, 100) + 4 * (100 - eff) + 3 * (missed * 10)
RiskScore(days, eff, missed) == 3 * days + 4 * (100 - eff) + 3 * (missed * 10)

AppRiskCell(r) ==
    IF IsNum(r.Days_Since_Last_Cleaning)
    THEN Num(RiskScore(Val(r.Days_Since_Last_Cleaning),
                       Val(r.Trap_Efficiency), Val(r.Missed_Cleanings)))
    ELSE NaN

AppRisk ==
    /\ app_pc = "derived"
    /\ df' = Table(df.cols \cup {"Risk_Score"},
                   [i \in 1..Len(df.rows) |->
                      df.rows[i] @@ [Risk_Score |-> AppRiskCell(df.rows[i])]])
    /\ app_pc' = "loaded"
    /\ UNCHANGED <<clock, models, sched, summary, preds, fitted, dpVars, mlVars, fastVars, scriptVars, trainVars>>

\* lines 67-117: train_models stores both models or, on any exception (an
\* empty table cannot be split), stores nothing and returns False.
\* lines 72-83 and 95-96: the columns of X (the five feature columns, the
\* two encoded columns appended, the two originals dropped) and of
\* X[volume_features], on which the two estimators are fitted.
AppFittedColumns(name) ==
    IF name = "missed_cleaning"
    THEN <<"Trap_Efficiency", "Days_Since_Last_Cleaning", "Total_Cleanings",
           "Outlet_Type_Encoded", "Location_Encoded">>
    ELSE <<"Outlet_Type_Encoded", "Location_Encoded", "Trap_Efficiency",
           "Total_Cleanings">>

AppTrainModels ==
    /\ app_pc = "loaded"
    /\ \/ /\ Len(df.rows) > 0
          /\ models' = {"missed_cleaning", "volume_prediction"}
          /\ fitted' = [m \in models' |-> AppFittedColumns(m)]
          /\ app_pc' = "serving"
       \/ /\ models' = models
          /\ fitted' = fitted
          /\ app_pc' = "train_failed"
    /\ UNCHANGED <<clock, df, sched, summary, preds, dpVars, mlVars, fastVars, scriptVars, trainVars>>

\* line 280: df[df['Risk_Score'] > 70]
RiskThreshold10 == 700
HighRisk(rows) ==
    SelectSeq(rows, LAMBDA r : IsNum(r.Risk_Score) /\ Val(r.Risk_Score) > RiskThreshold10)

Perms(n) == {p \in [1..n -> 1..n] : \A i, j \in 1..n : i # j => p[i] # p[j]}

IsDescending(rows) ==
    \A i \in 1..Len(rows) - 1 : Val(rows[i].Risk_Score) >= Val(rows[i + 1].Risk_Score)

\* line 281: sort_values('Risk_Score', ascending=False); the default sort is
\* not stable, so rows of equal score come out in any order.
SortedByRiskUnsorted(rows) == {rows}
SortedByRisk(rows) ==
    {s \in {[i \in 1..Len(rows) |-> rows[p[i]]] : p \in Perms(Len(rows))} :
        IsDescending(s)}

\* line 298: week_outlets = high_risk.head((i + 1) * 10)
BatchSize == 10
Weeks == 4
DfHead(rows, n) == SubSeq(rows, 1, Min(n, Len(rows)))
WeekSlice(rows, i) == SubSeq(rows, Min(i * BatchSize, Len(rows)) + 1,
                             Min((i + 1) * BatchSize, Len(rows)))
WeekOutlets(high_risk, i) == DfHead(high_risk, (i + 1) * BatchSize)

\* lines 428-439: __main__ calls app.run, and so answers requests, only
\* after load_and_process_data and train_models have both returned True.
AppServerUpOnceRead == df # None
AppServerUpOnceLoaded == app_pc \in {"loaded", "serving"}
AppServerUp == app_pc = "serving"

\* lines 272-318: /api/scheduling; a table without the Risk_Score column
\* raises KeyError, answered as an error.
AppGetScheduling ==
    /\ AppServerUp
    /\ IF df = None THEN sched' = [error |-> "Data not loaded"]
       ELSE IF "Risk_Score" \in df.cols
       THEN \E high_risk \in SortedByRisk(HighRisk(df.rows)) :
               sched' = [high_risk |-> high_risk,
                         weekly_schedule |->
                            [w \in 1..Weeks |-> WeekOutlets(high_risk, w - 1)]]
       ELSE sched' = [error |-> "Risk_Score"]
    /\ UNCHANGED <<clock, df, models, app_pc, summary, preds, fitted, dpVars, mlVars,
                   fastVars, scriptVars, trainVars>>

\* lines 131-135: the counts of the summary (the sums, means and groupings
\* of the other columns are read from the same table).
AppSummary(rows) ==
    [total_outlets |-> Len(rows), high_risk_outlets |-> Len(HighRisk(rows))]

\* lines 124-158: /api/data/summary
AppGetDataSummary ==
    /\ AppServerUp
    /\ summary' = IF df = None THEN [error |-> "Data not loaded"]
                  ELSE IF "Risk_Score" \in df.cols THEN AppSummary(df.rows)
                  ELSE [error |-> "Risk_Score"]
    /\ UNCHANGED <<clock, df, models, app_pc, sched, preds, fitted, dpVars, mlVars,
                   fastVars, scriptVars, trainVars>>

\* lines 221-227: the columns of X_pred handed to predict_proba, and of the
\* selection handed to the regressor's predict
AppPredictColumns(name) ==
    IF name = "missed_cleaning"
    THEN <<"Trap_Efficiency", "Days_Since_Last_Cleaning", "Total_Cleanings",
           "Outlet_Type_Encoded", "Location_Encoded">>
    ELSE <<"Outlet_Type_Encoded", "Location_Encoded", "Trap_Efficiency",
           "Total_Cleanings">>

\* lines 246-255: the names zipped with feature_importances_
AppImportanceLabels(name) ==
    IF name = "missed_cleaning"
    THEN <<"Trap_Efficiency", "Days_Since_Last_Cleaning", "Total_Cleanings",
           "Outlet_Type", "Location">>
    ELSE <<"Trap_Efficiency", "Total_Cleanings", "Outlet_Type", "Location">>

\* dict(zip(names, importances)): importance k belongs to fitted column k
AppZipImportance(names, columns) ==
    [k \in 1..Min(Len(names), Len(columns)) |->
        [label |-> names[k], importance_of |-> columns[k]]]

\* lines 210-270: /api/predictions.  An estimator fitted on a DataFrame
\* refuses columns in another order (ValueError, answered as an error).
AppGetPredictions ==
    /\ AppServerUp
    /\ preds' =
         IF models = {} THEN [error |-> "Models not trained"]
         ELSE IF \E m \in models : AppPredictColumns(m) # fitted[m]
         THEN [error |-> "feature names"]
         ELSE [feature_importance |->
                  [m \in models |->
                      AppZipImportance(AppImportanceLabels(m), fitted[m])],
               n_predictions |-> Len(df.rows),
               next_month_services |-> (11 * Len(df.rows)) \div 10]
    /\ UNCHANGED <<clock, df, models, app_pc, sched, summary, fitted, dpVars,
                   mlVars, fastVars, scriptVars, trainVars>>

NextApp ==
    \/ AppRead
    \/ AppDropna
    \/ AppToDatetime
    \/ AppFillna
    \/ AppDerive
    \/ AppRisk
    \/ AppTrainModels
    \/ AppGetScheduling
    \/ AppGetDataSummary
    \/ AppGetPredictions

(***************************************************************************)
(* Properties of backend/app.py                                            *)
(***************************************************************************)
AppScored == df # None /\ "Risk_Score" \in df.cols

IdOrder == <<"o1", "o2">>
IdRank(id) == CHOOSE k \in 1..Len(IdOrder) : IdOrder[k] = id

Count(rows, r) == Cardinality({i \in 1..Len(rows) : rows[i] = r})
SameRows(a, b) == \A r \in Range(a) \cup Range(b) : Count(a, r) = Count(b, r)

C8_WeeksPartition ==
    sched # NoResp =>
        \A w \in 1..Weeks :
            sched.weekly_schedule[w] = WeekSlice(sched.high_risk, w - 1)

\* C10 as claimed: after a failed load the table visible to queries is the
\* one visible before the run (none at startup), never a partial table.
C10_FailedLoadPublishesNothing ==
    app_pc = "load_failed" => df = None

\* C13 as claimed: normalization drops a record if and only if its outlet id
\* is missing, so as many records are kept as have an outlet id; a record
\* without a location (area) or outlet type (category) is kept.
C13_DropsOnlyWithoutOutletId ==
    [][AppDropna =>
          df'.rows = SelectSeq(df.rows, LAMBDA r : r.Outlet_Name # NA)]_vars

DpDomain ==
    [Outlet : {"o1", "o2"},
     Collected_Date : {Num(-40), Num(-10), Num(5), Str, NaN},
     Month : {Num(-40), Num(-10), Str},
     Area : {"Dubai", NA},
     Zone : {"Z1", NA},
     Category : {"Restaurant", NA},
     Gallons : {Num(100), Num(0), NaN, Str},
     Traps : {Num(2), Num(0), NaN, Str}]

DpBaseRow ==
    [Outlet |-> "o1", Collected_Date |-> Num(-40), Month |-> Num(-40),
     Area |-> "Dubai", Zone |-> "Z1", Category |-> "Restaurant",
     Gallons |-> Num(100), Traps |-> Num(2)]

\* The raw rows: a well-formed row changed in one column, and the row with
\* neither gallons nor traps (0 / 0).
DpRawRows ==
    {r \in DpDomain :
        \E c \in DOMAIN r : \A x \in DOMAIN r \ {c} : r[x] = DpBaseRow[x]}
    \cup {[DpBaseRow EXCEPT !.Gallons = Num(0), !.Traps = Num(0)]}

Without(r, c) == [x \in DOMAIN r \ {c} |-> r[x]]
With(r, c, v) == [x \in DOMAIN r \cup {c} |-> IF x = c THEN v ELSE r[x]]
MapRows(rows, F(_)) == [i \in 1..Len(rows) |-> F(rows[i])]

DpFiles ==
    {Table(DOMAIN DpBaseRow, rows) : rows \in SeqsUpTo(DpRawRows, MaxRows)}
    \cup {Table(DOMAIN DpBaseRow \ {"Zone"}, rows) :
             rows \in SeqsUpTo({Without(r, "Zone") : r \in DpRawRows}, MaxRows)}
    \cup {Table(DOMAIN DpBaseRow \ {"Category"}, rows) :
             rows \in SeqsUpTo({Without(r, "Category") : r \in DpRawRows},
                               MaxRows)}

\* lines 23-35: load_data; a failed read leaves self.df alone.
DpLoadData ==
    /\ dp_state = "new"
    /\ \/ \E f \in DpFiles : dp_df' = f /\ dp_state' = "loaded"
       \/ dp_df' = dp_df /\ dp_state' = "load_failed"
    /\ UNCHANGED <<clock, appVars, mlVars, fastVars, scriptVars, trainVars, dp_resp>>

\* pd.to_numeric(errors='coerce')
ToNumeric(c) == IF c = Str THEN NaN ELSE c

\* Series.fillna('Unknown') on a text column
FillUnknown(v) == IF v = NA THEN "Unknown" ELSE v

Inf == <<"inf">>
Ratio(g, t) == <<"ratio", g, t>>
IsFinite(c) == c[1] \in {"num", "ratio"}

\* line 61: float division of two columns: x/0 is inf, 0/0 and NaN are NaN.
Divide(g, t) ==
    IF ~(IsNum(g) /\ IsNum(t)) THEN NaN
    ELSE IF Val(t) # 0 THEN Ratio(Val(g), Val(t))
    ELSE IF Val(g) = 0 THEN NaN
    ELSE Inf

\* line 64: replace([np.inf, -np.inf], np.nan)
ReplaceInf(c) == IF c = Inf THEN NaN ELSE c

\* lines 47-48
DpDates(r) ==
    [r EXCEPT !.Collected_Date = ToDatetime(@), !.Month = ToDatetime(@)]

\* line 51
DpFillArea(r) == [r EXCEPT !.Area = FillUnknown(@)]

\* line 52
DpFillZone(r) == [r EXCEPT !.Zone = FillUnknown(@)]

\* lines 52-57
DpFillRest(r) ==
    [r EXCEPT !.Zone = FillUnknown(@), !.Category = FillUnknown(@),
              !.Gallons = ToNumeric(@), !.Traps = ToNumeric(@)]

\* lines 60-64
DpDerive(now, r) ==
    With(With(r, "Days_Since_Collection", DaysSince(now, r.Collected_Date)),
         "Gallons_per_Trap", ReplaceInf(Divide(r.Gallons, r.Traps)))

DpCleanRow(now, r) == DpDerive(now, DpFillRest(DpFillArea(DpDates(r))))

\* lines 37-71: clean_data works on self.df in place; a table without the
\* Zone column raises KeyError at line 52, with lines 47-51 already applied,
\* and one without the Category column at line 53.
DpCleanData ==
    /\ dp_state \in {"loaded", "cleaned", "recleaned"}
    /\ IF "Category" \notin dp_df.cols
       THEN /\ dp_df' = [dp_df EXCEPT !.rows =
                           MapRows(@, LAMBDA r :
                                      DpFillZone(DpFillArea(DpDates(r))))]
            /\ dp_state' = "clean_failed"
       ELSE IF "Zone" \in dp_df.cols
       THEN /\ dp_df' = Table(dp_df.cols \cup
                                {"Days_Since_Collection", "Gallons_per_Trap"},
                              MapRows(dp_df.rows, LAMBDA r : DpCleanRow(clock, r)))
            /\ dp_state' = IF dp_state = "loaded" THEN "cleaned" ELSE "recleaned"
       ELSE /\ dp_df' = [dp_df EXCEPT !.rows =
                           MapRows(@, LAMBDA r : DpFillArea(DpDates(r)))]
            /\ dp_state' = "clean_failed"
    /\ UNCHANGED <<clock, appVars, mlVars, fastVars, scriptVars, trainVars, dp_resp>>

DpReady == dp_state \in {"cleaned", "recleaned"}

RECURSIVE SumSeq(_)
SumSeq(s) == IF s = <<>> THEN 0 ELSE Head(s) + SumSeq(Tail(s))

\* Series.sum(): NaN cells are skipped.
GallonsOf(r) == IF IsNum(r.Gallons) THEN Val(r.Gallons) ELSE 0
SumGallons(rows) == SumSeq(MapRows(rows, GallonsOf))

\* Series.dt.to_period('M'), with months of 30 days; NaT stays NaT.
ToPeriodM(c) == IF IsNum(c) THEN Num(Val(c) \div 30) ELSE NaN

\* DataFrame.groupby(keys)[...].sum(), keys being a column as long as the
\* table: one bucket per key value; rows whose key is missing (NaN, NaT)
\* are left out (dropna=True is the default).
GroupSum(rows, keys) ==
    LET kept == {i \in 1..Len(rows) : keys[i] # NaN}
        Bucket(k) == [i \in 1..Len(rows) |->
                         IF keys[i] = k THEN GallonsOf(rows[i]) ELSE 0]
    IN  [k \in {keys[i] : i \in kept} |-> SumSeq(Bucket(k))]

\* line 147: the Area column as a grouping key
AreaKey(r) == IF r.Area = NA THEN NaN ELSE <<"key", r.Area>>

\* line 137: self.df['Month'].dt.to_period('M')
MonthKey(r) == ToPeriodM(r.Month)

\* lines 142-150: get_location_breakdown
DpGetLocationBreakdown ==
    /\ DpReady
    /\ dp_resp' = [group_key |-> "area", total_gallons |-> GroupSum(dp_df.rows, MapRows(dp_df.rows, AreaKey))]
    /\ UNCHANGED <<clock, appVars, mlVars, fastVars, scriptVars, trainVars, dp_df, dp_state>>

\* lines 132-140: get_monthly_trends
DpGetMonthlyTrends ==
    /\ DpReady
    /\ dp_resp' = [group_key |-> "month", total_gallons |-> GroupSum(dp_df.rows, MapRows(dp_df.rows, MonthKey))]
    /\ UNCHANGED <<clock, appVars, mlVars, fastVars, scriptVars, trainVars, dp_df, dp_state>>

\* settings.py line 73: DATA_SETTINGS['high_risk_threshold_days']
HighRiskThresholdDays == 30

\* lines 118-119: threshold_days, <<>> standing for None
DpThresholdDays(arg) == IF arg = <<>> THEN HighRiskThresholdDays ELSE arg[1]

\* line 123: Days_Since_Collection > threshold_days (NaN compares False)
DpAtLeast(days, threshold) == IsNum(days) /\ Val(days) >= threshold
DpAbove(days, threshold) == IsNum(days) /\ Val(days) > threshold

\* line 123: self.df[self.df['Days_Since_Collection'] > threshold_days]
DpHighRisk(rows, threshold) ==
    SelectSeq(rows, LAMBDA r : DpAbove(r.Days_Since_Collection, threshold))

\* lines 124-129: the row of one group: max of the days, sum of the
\* gallons, first Area and Zone.
DpOutletRow(rows, o) ==
    LET group == SelectSeq(rows, LAMBDA r : r.Outlet = o)
        days == {Val(group[i].Days_Since_Collection) : i \in 1..Len(group)}
    IN  [Outlet |-> o,
         Days_Since_Collection |-> CHOOSE d \in days : \A e \in days : d >= e,
         Gallons |-> SumGallons(group),
         Area |-> group[1].Area,
         Zone |-> group[1].Zone]

\* line 129: sort_values('Days_Since_Collection', ascending=False) over the
\* groups; groups of equal days come out in any order.
DpSortedByDays(groups) ==
    {s \in SeqsUpTo(groups, Cardinality(groups)) :
        /\ Range(s) = groups
        /\ Len(s) = Cardinality(groups)
        /\ \A i \in 1..Len(s) - 1 :
              s[i].Days_Since_Collection >= s[i + 1].Days_Since_Collection}

\* lines 116-130: get_high_risk_outlets(threshold_days).  Without data the
\* result is an empty frame; a table that clean_data has not completed has
\* no Days_Since_Collection column (KeyError, raised to the caller).
DpGetHighRiskOutlets ==
    /\ \E arg \in {<<>>, <<10>>} :
          LET threshold == DpThresholdDays(arg)
          IN  IF dp_df = None
              THEN dp_resp' = [group_key |-> "outlet", threshold |-> threshold,
                               outlets |-> <<>>]
              ELSE IF "Days_Since_Collection" \notin dp_df.cols
              THEN dp_resp' = [error |-> "Days_Since_Collection"]
              ELSE LET high_risk == DpHighRisk(dp_df.rows, threshold)
                       groups == {DpOutletRow(high_risk, high_risk[i].Outlet) :
                                     i \in 1..Len(high_risk)}
                   IN  \E s \in DpSortedByDays(groups) :
                          dp_resp' = [group_key |-> "outlet",
                                      threshold |-> threshold, outlets |-> s]
    /\ UNCHANGED <<clock, appVars, mlVars, fastVars, scriptVars, trainVars, dp_df, dp_state>>

\* datetime.now() advances between calls.
Tick ==
    /\ clock < MaxTicks
    /\ clock' = clock + 1
    /\ UNCHANGED <<appVars, dpVars, mlVars, fastVars, scriptVars, trainVars>>

NextDP ==
    \/ DpLoadData
    \/ DpCleanData
    \/ DpGetLocationBreakdown
    \/ DpGetMonthlyTrends
    \/ Tick

\* The tables that differ in what get_high_risk_outlets reads: whose visit
\* it is and when it was.
DpVisitRows ==
    {r \in DpDomain :
        \A x \in DOMAIN r \ {"Outlet", "Collected_Date"} : r[x] = DpBaseRow[x]}

DpVisitFiles ==
    {Table(DOMAIN DpBaseRow, rows) : rows \in SeqsUpTo(DpVisitRows, MaxRows)}

\* lines 23-35: load_data on one of these tables
DpLoadVisits ==
    /\ dp_state = "new"
    /\ \/ \E f \in DpVisitFiles : dp_df' = f /\ dp_state' = "loaded"
       \/ dp_df' = dp_df /\ dp_state' = "load_failed"
    /\ UNCHANGED <<clock, appVars, mlVars, fastVars, scriptVars, trainVars, dp_resp>>

NextHighRisk ==
    \/ DpLoadVisits
    \/ DpCleanData
    \/ DpGetHighRiskOutlets
    \/ Tick

C3_TrapsPositiveAndRatioFinite ==
    DpReady =>
        \A i \in 1..Len(dp_df.rows) :
            /\ IsNum(dp_df.rows[i].Traps)
            /\ Val(dp_df.rows[i].Traps) >= 1
            /\ IsFinite(dp_df.rows[i].Gallons_per_Trap)

\* C4 as claimed: cleaning a table that is already the output of cleaning
\* changes no value.
C4_CleanIdempotent ==
    [][(DpReady /\ DpCleanData) => dp_df' = dp_df]_vars

SameExcept(a, b, col) ==
    /\ a.cols = b.cols
    /\ Len(a.rows) = Len(b.rows)
    /\ \A i \in 1..Len(a.rows) :
          \A c \in a.cols \ {col} : a.rows[i][c] = b.rows[i][c]

\* What a second clean_data does keep: every parsed date, filled text,
\* coerced number and gallons_per_trap; Days_Since_Collection alone is
\* recomputed, against the clock of the new run, and never decreases.
CleanKeepsAllButDays ==
    [][(DpReady /\ DpCleanData) =>
          /\ SameExcept(dp_df, dp_df', "Days_Since_Collection")
          /\ \A i \in 1..Len(dp_df.rows) :
                LET old == dp_df.rows[i].Days_Since_Collection
                    new == dp_df'.rows[i].Days_Since_Collection IN
                IF IsNum(old) THEN IsNum(new) /\ Val(new) >= Val(old)
                ELSE new = NaN]_vars

RECURSIVE SumFn(_)
SumFn(f) ==
    IF DOMAIN f = {} THEN 0
    ELSE LET k == CHOOSE x \in DOMAIN f : TRUE
         IN  f[k] + SumFn([x \in DOMAIN f \ {k} |-> f[x]])

\* C14 as claimed: cleaning turns a missing or non-numeric gallons cell
\* into 0 and a missing or non-numeric trap count into 1, and a record
\* whose trap count was missing gets gallons_per_trap = gallons.
C14_MissingNumbersDefaulted ==
    [][(dp_state = "loaded" /\ DpCleanData /\ dp_state' = "cleaned") =>
          \A i \in 1..Len(dp_df.rows) :
              LET raw == dp_df.rows[i]
                  new == dp_df'.rows[i] IN
              /\ raw.Gallons \in {NaN, Str} => new.Gallons = Num(0)
              /\ raw.Traps \in {NaN, Str} =>
                    /\ new.Traps = Num(1)
                    /\ new.Gallons_per_Trap = Ratio(Val(new.Gallons), 1)]_vars

\* C15 as claimed: every record of the cleaned table has
\* days_since_collection = max(0, days from collected_at to the clock), and
\* a record without a collection date is not in the cleaned table.
C15_DaysClampedNullDropped ==
    [][(dp_state = "loaded" /\ DpCleanData /\ dp_state' = "cleaned") =>
          /\ Len(dp_df'.rows)
                = Len(SelectSeq(dp_df.rows,
                                LAMBDA r : IsNum(r.Collected_Date)))
          /\ \A i \in 1..Len(dp_df'.rows) :
                LET new == dp_df'.rows[i] IN
                /\ IsNum(new.Days_Since_Collection)
                /\ Val(new.Days_Since_Collection) >= 0]_vars

\* What clean_data does instead: it keeps every record;
\* Days_Since_Collection is the whole number of days from the collection
\* date to the clock, negative when the date lies after the clock, and NaN
\* for a record whose collection date is missing or unparseable.
CleanKeepsRowsAndSignedDays ==
    [][(DpCleanData /\ dp_state' \in {"cleaned", "recleaned"}) =>
          /\ Len(dp_df'.rows) = Len(dp_df.rows)
          /\ \A i \in 1..Len(dp_df.rows) :
                LET date == dp_df.rows[i].Collected_Date
                    new == dp_df'.rows[i].Days_Since_Collection IN
                IF IsNum(date) THEN new = Num(clock - Val(date))
                ELSE new = NaN]_vars

\* The columns the spec requires in the header: outlet id, gallons
\* collected, trap count, area, category.
RequiredCols == {"Outlet", "Gallons", "Traps", "Area", "Category"}

\* C12 as claimed: a source whose header lacks a required column fails at
\* load, so no table without a required column is ever held for cleaning.
C12_DpLoadChecksSchema ==
    dp_df # None => RequiredCols \subseteq dp_df.cols

\* C5 as claimed: for every grouping key the bucket totals add up to the
\* gallons of all records, records with a missing or unparseable key included.
C5_BucketsConserveGallons ==
    dp_resp # NoResp => SumFn(dp_resp.total_gallons) = SumGallons(dp_df.rows)

(***************************************************************************)
(* scripts/train.py                                                        *)
(***************************************************************************)
\* risk_score is held exactly, in units of 1/Scale: every term of lines
\* 165-172 is a whole number of them.
Scale == 90000

\* The columns of processed_data.csv that BlueDataML reads ('Entity
\* Mapping.Outlet' is Outlet, 'Sum of Gallons Collected' is Gallons, 'Sum of
\* No of Traps' is Traps); the file may or may not carry Latitude/Longitude.
MlDomain ==
    [Outlet : {"o1", "o2"},
     Gallons : {Num(1000), Num(0), Num(3000), Str},
     Traps : {Num(1), Num(5), NaN},
     Days_Since_Collection : {Num(9), Num(45), Num(120), NaN},
     Latitude : {NaN},
     Longitude : {NaN}]

MlBaseRow ==
    [Outlet |-> "o1", Gallons |-> Num(1000), Traps |-> Num(1),
     Days_Since_Collection |-> Num(9), Latitude |-> NaN, Longitude |-> NaN]

\* The rows of the file: a well-formed row changed in one column.
MlRawRows ==
    {r \in MlDomain :
        \E c \in DOMAIN r : \A x \in DOMAIN r \ {c} : r[x] = MlBaseRow[x]}

MlCoordCols == {"Latitude", "Longitude"}

MlFiles ==
    {Table(DOMAIN MlBaseRow, rows) : rows \in SeqsUpTo(MlRawRows, MaxRows)}
    \cup {Table(DOMAIN MlBaseRow \ MlCoordCols, rows) :
             rows \in SeqsUpTo({Without(Without(r, "Latitude"), "Longitude") :
                                   r \in MlRawRows}, MaxRows)}

\* lines 33-50: load_data; a missing or unreadable file leaves self.df alone.
MlLoadData ==
    /\ ml_state = "new"
    /\ \/ \E f \in MlFiles : ml_df' = f /\ ml_state' = "loaded"
       \/ ml_df' = ml_df /\ ml_state' = "load_failed"
    /\ UNCHANGED <<clock, appVars, dpVars, fastVars, scriptVars, trainVars,
                   ml_kpi, ml_snapshot, ml_models, ml_predictions>>

\* s in ascending order
SortAsc(s) ==
    LET n == Len(s) IN
    CHOOSE t \in {[i \in 1..n |-> s[p[i]]] : p \in Perms(n)} :
        \A i \in 1..(n - 1) : t[i] <= t[i + 1]

\* line 73: ten times Series.quantile(0.8) of a column without NaN (linear
\* interpolation between the two nearest order statistics).
Quantile80(vals) ==
    LET n == Len(vals)
        srt == SortAsc(vals)
        pos == 8 * (n - 1)
        lo == pos \div 10
        fr == pos % 10
    IN  10 * srt[lo + 1]
          + (IF fr = 0 THEN 0 ELSE fr * (srt[lo + 2] - srt[lo + 1]))

\* lines 57-68: to_numeric(errors='coerce') and fillna on the three columns
MlFillRow(r) ==
    [r EXCEPT !.Gallons = FillNa(ToNumeric(@), 0),
              !.Traps = FillNa(ToNumeric(@), 1),
              !.Days_Since_Collection = FillNa(ToNumeric(@), 30)]

\* lines 70-73: the two target columns
MlTargets(rows) ==
    LET q == Quantile80(MapRows(rows, LAMBDA r : Val(r.Gallons))) IN
    MapRows(rows, LAMBDA r :
        With(With(r, "missed_cleaning",
                  IF Val(r.Days_Since_Collection) > 30 THEN 1 ELSE 0),
             "high_volume", IF 10 * Val(r.Gallons) > q THEN 1 ELSE 0))

\* lines 52-89: prepare_features; on an empty table the comparison with the
\* NaN quantile is all False and StandardScaler.fit_transform raises at line
\* 82, after self.df has been rebuilt.
MlPrepareFeatures ==
    /\ ml_state = "loaded"
    /\ LET filled == MapRows(ml_df.rows, MlFillRow) IN
       IF filled = <<>>
       THEN /\ ml_df' = Table(ml_df.cols \cup {"missed_cleaning", "high_volume"},
                              <<>>)
            /\ ml_state' = "prepare_failed"
       ELSE /\ ml_df' = Table(ml_df.cols \cup {"missed_cleaning", "high_volume"},
                              MlTargets(filled))
            /\ ml_state' = "prepared"
    /\ UNCHANGED <<clock, appVars, dpVars, fastVars, scriptVars, trainVars,
                   ml_kpi, ml_snapshot, ml_models, ml_predictions>>

\* lines 91-134: train_models; train_test_split(test_size=0.2) of a single
\* sample leaves an empty training set and raises.
MlTrainModels ==
    /\ ml_state = "prepared"
    /\ IF Len(ml_df.rows) >= 2
       THEN /\ ml_models' = {"missed_cleaning", "volume_prediction"}
            /\ ml_state' = "trained"
       ELSE /\ ml_models' = ml_models
            /\ ml_state' = "train_failed"
    /\ UNCHANGED <<clock, appVars, dpVars, fastVars, scriptVars, trainVars,
                   ml_kpi, ml_snapshot, ml_df, ml_predictions>>

\* lines 201-211: _assign_grade, thresholds 0.08, 0.2 and 0.55
MlAssignGrade(risk_score) ==
    IF 100 * risk_score < 8 * Scale THEN "A"
    ELSE IF 10 * risk_score < 2 * Scale THEN "B"
    ELSE IF 100 * risk_score < 55 * Scale THEN "C"
    ELSE "D"

\* lines 213-227: _calculate_next_due, in days after the base date
MlCalculateNextDue(days_since) ==
    IF days_since > 30 THEN 7
    ELSE IF days_since > 15 THEN 14
    ELSE 30 - days_since

\* lines 165-172: missed_prob * 0.4 + days_factor * 0.3 + volume_factor * 0.2
\* + traps_factor * 0.1, missed_prob given in percent.
MlRiskScore(missed_prob, rec) ==
    360 * missed_prob
      + 300 * Min(Val(rec.Days_Since_Collection), 90)
      + 9 * Min(Val(rec.Gallons), 2000)
      + 1800 * Min(Val(rec.Traps), 5)

\* line 142: Series.unique(), in order of first appearance
RECURSIVE Unique(_)
Unique(s) ==
    IF s = <<>> THEN <<>>
    ELSE LET rest == Unique(SubSeq(s, 1, Len(s) - 1)) IN
         IF s[Len(s)] \in Range(rest) THEN rest ELSE Append(rest, s[Len(s)])

\* lines 146-149: the last record of an outlet
LatestRecord(rows, outlet) ==
    LET of == SelectSeq(rows, LAMBDA r : r.Outlet = outlet) IN of[Len(of)]

\* What the classifier's predict_proba may return, in percent.
MlProbs == {0, 50, 100}

\* lines 184-185: the coordinates used for a record without its own
DefaultLat == 252048
DefaultLon == 552708

\* lines 174-191: one item of predictions (the volume forecast, the text
\* fields and shap_top3 are copies or rescalings of the record's own cells).
MlPrediction(k, outlet, rec, missed_prob) ==
    [outlet_id |-> k,
     name |-> outlet,
     grade |-> MlAssignGrade(MlRiskScore(missed_prob, rec)),
     p_miss_cleaning |-> missed_prob,
     risk_illegal_dump |-> MlRiskScore(missed_prob, rec),
     next_due_date |-> MlCalculateNextDue(Val(rec.Days_Since_Collection)),
     lat |-> IF rec.Latitude # NaN THEN Val(rec.Latitude) ELSE DefaultLat,
     lon |-> IF rec.Longitude # NaN THEN Val(rec.Longitude) ELSE DefaultLon]

\* lines 136-199: generate_predictions; a table without the Latitude column
\* raises KeyError at line 184 and self.predictions is never assigned.
MlGeneratePredictions ==
    /\ ml_state = "trained"
    /\ IF MlCoordCols \subseteq ml_df.cols
       THEN LET unique_outlets ==
                    Unique(MapRows(ml_df.rows, LAMBDA r : r.Outlet)) IN
            /\ \E probs \in [1..Len(unique_outlets) -> MlProbs] :
                  ml_predictions' =
                      [k \in 1..Len(unique_outlets) |->
                          MlPrediction(k, unique_outlets[k],
                                       LatestRecord(ml_df.rows, unique_outlets[k]),
                                       probs[k])]
            /\ ml_state' = "predicted"
       ELSE /\ ml_predictions' = ml_predictions
            /\ ml_state' = "predict_failed"
    /\ UNCHANGED <<clock, appVars, dpVars, fastVars, scriptVars, trainVars,
                   ml_kpi, ml_snapshot, ml_df, ml_models>>

\* lines 229-262: generate_kpi_overview; a table without the Month column
\* raises KeyError at line 239 (month_col says whether the file has it; no
\* other stage reads the column).
MlGenerateKpiOverview ==
    /\ ml_state = "predicted"
    /\ \E month_col \in BOOLEAN :
          IF month_col
          THEN /\ ml_kpi' = [missed_cleanings |->
                                Len(SelectSeq(ml_df.rows, LAMBDA r :
                                       Val(r.Days_Since_Collection) > 30))]
               /\ ml_state' = "kpi"
          ELSE /\ ml_kpi' = ml_kpi
               /\ ml_state' = "kpi_failed"
    /\ UNCHANGED <<clock, appVars, dpVars, fastVars, scriptVars, trainVars,
                   ml_df, ml_models, ml_predictions, ml_snapshot>>

\* lines 333-338: run_pipeline reaches save_snapshots
MlSaveReachedUnchecked == ml_state \in {"kpi", "kpi_failed"}
MlSaveReached == ml_state = "kpi"

\* lines 271-304: the files save_snapshots writes, in this order
SnapshotFiles == <<"predictions.json", "kpi_overview.json", "model_summary.json">>

\* lines 264-311: save_snapshots; a write may fail, and the files written
\* before it stay.
MlSaveSnapshots ==
    /\ MlSaveReached
    /\ \E n \in 0..Len(SnapshotFiles) :
          /\ ml_snapshot' =
                [files |-> SubSeq(SnapshotFiles, 1, n),
                 items |-> IF n >= 1 THEN ml_predictions ELSE <<>>,
                 models |-> IF n = Len(SnapshotFiles) THEN ml_models ELSE {}]
          /\ ml_state' = IF n = Len(SnapshotFiles) THEN "saved"
                         ELSE "save_failed"
    /\ UNCHANGED <<clock, appVars, dpVars, fastVars, scriptVars, trainVars,
                   ml_df, ml_models, ml_predictions, ml_kpi>>

NextML ==
    \/ MlLoadData
    \/ MlPrepareFeatures
    \/ MlTrainModels
    \/ MlGeneratePredictions
    \/ MlGenerateKpiOverview
    \/ MlSaveSnapshots

(***************************************************************************)
(* Properties of scripts/train.py                                          *)
(***************************************************************************)
\* The stages of run_pipeline in the order of lines 318-338, each with the
\* state of having passed it and of having failed in it.
MlStages ==
    <<[ok |-> "loaded", failed |-> "load_failed"],
      [ok |-> "prepared", failed |-> "prepare_failed"],
      [ok |-> "trained", failed |-> "train_failed"],
      [ok |-> "predicted", failed |-> "predict_failed"],
      [ok |-> "kpi", failed |-> "kpi_failed"],
      [ok |-> "saved", failed |-> "save_failed"]>>

\* The run has not got past stage k - 1: stage k has not run, or has failed.
MlNotPast(k) ==
    \/ ml_state = "new"
    \/ \E j \in 1..(k - 1) : ml_state \in {MlStages[j].ok, MlStages[j].failed}
    \/ ml_state = MlStages[k].failed

\* C30: run_pipeline runs load_data, prepare_features, train_models,
\* generate_predictions, generate_kpi_overview and save_snapshots in this
\* order and stops at the first that fails: what a stage produces exists
\* only when every stage before it has succeeded, a snapshot file is written
\* only with the models, predictions and KPI overview of this run in place,
\* and the saved predictions are those of the models trained in this run.
C30_PipelineInOrder ==
    /\ \E k \in 1..Len(MlStages) :
          ml_state \in {"new", MlStages[k].ok, MlStages[k].failed}
    /\ MlNotPast(1) => ml_df = None
    /\ (MlNotPast(2) /\ ml_state # "prepare_failed" /\ ml_df # None) =>
          "missed_cleaning" \notin ml_df.cols
    /\ MlNotPast(3) => ml_models = {}
    /\ MlNotPast(4) => ml_predictions = None
    /\ MlNotPast(5) => ml_kpi = None
    /\ ml_state \notin {"saved", "save_failed"} => ml_snapshot.files = <<>>
    /\ ml_snapshot.files # <<>> =>
          /\ ml_models = {"missed_cleaning", "volume_prediction"}
          /\ ml_kpi # None
          /\ ml_snapshot.items = ml_predictions
    /\ ml_state = "saved" =>
          /\ ml_snapshot.files = SnapshotFiles
          /\ ml_snapshot.models = ml_models

\* C30: a run has passed all six stages and saved the predictions of at
\* least one outlet.
C30_SnapshotSaved ==
    /\ ml_state = "saved"
    /\ Len(ml_snapshot.items) > 0

\* The bucket of a score under the thresholds 0.25, 0.5 and 0.75.
FixedBucket(risk_score) ==
    IF 4 * risk_score < Scale THEN "A"
    ELSE IF 2 * risk_score < Scale THEN "B"
    ELSE IF 4 * risk_score < 3 * Scale THEN "C"
    ELSE "D"

\* C2 as claimed: the grade of every record is the bucket of its risk score
\* under the fixed thresholds 0.25 / 0.5 / 0.75 (A below the first, D from
\* the last on).
C2_GradeIsFixedBucket ==
    ml_state = "predicted" =>
        \A k \in 1..Len(ml_predictions) :
            ml_predictions[k].grade
                = FixedBucket(ml_predictions[k].risk_illegal_dump)

(***************************************************************************)
(* backend/app_fast.py                                                     *)
(***************************************************************************)
\* The number of mock outlets (range(50) at line 15).
MaxOutlets == 3

\* Values random.randint(25, 85) may give.
FastScores == {25, 70, 71, 85}

\* lines 10-31: data = generate_fast_data(), run once at import.  Of an
\* outlet's fields the endpoint below reads Risk_Score only.
FastGenerateData ==
    /\ fast_data = None
    /\ \E scores \in [1..MaxOutlets -> FastScores] :
          fast_data' = [outlets |->
                           [i \in 1..MaxOutlets |->
                               [Outlet_Name |-> i, Risk_Score |-> scores[i]]]]
    /\ UNCHANGED <<clock, appVars, dpVars, mlVars, trainVars, scriptVars, fast_resp>>

\* Python's s[a:b]
Slice(s, a, b) == SubSeq(s, Min(a, Len(s)) + 1, Min(b, Len(s)))

FastThreshold == 70
FastLimit == 20
FastWeekSize == 5

\* line 92: [o for o in data if o["Risk_Score"] > 70][:20]
FastHighRisk(data) ==
    Slice(SelectSeq(data, LAMBDA o : o.Risk_Score > FastThreshold),
          0, FastLimit)

\* lines 90-108: /api/scheduling
FastScheduling ==
    /\ fast_data # None
    /\ LET high_risk == FastHighRisk(fast_data.outlets) IN
       fast_resp' =
          [weekly_schedule |->
              [w \in 1..Weeks |->
                  Slice(high_risk, (w - 1) * FastWeekSize, w * FastWeekSize)],
           total_inspections_planned |-> Len(high_risk),
           high_priority_outlets |-> high_risk]
    /\ UNCHANGED <<clock, appVars, dpVars, mlVars, trainVars, scriptVars, fast_data>>

NextFast ==
    \/ FastGenerateData
    \/ FastScheduling

(***************************************************************************)
(* Properties of backend/app_fast.py                                       *)
(***************************************************************************)
\* C6 as claimed: the ranking holds exactly the records whose score is
\* strictly above the threshold, ordered by descending score.
C6_AboveThresholdDescending ==
    fast_resp # NoResp =>
        LET hr == fast_resp.high_priority_outlets
            above == {i \in 1..MaxOutlets :
                         fast_data.outlets[i].Risk_Score > FastThreshold}
        IN  /\ Len(hr) = Cardinality(above)
            /\ Range(hr) = {fast_data.outlets[i] : i \in above}
            /\ \A i, j \in 1..Len(hr) :
                  i < j => hr[i].Risk_Score >= hr[j].Risk_Score

(***************************************************************************)
(* backend/utils/helpers/model_trainer.py and backend/app_real.py          *)
(***************************************************************************)
\* MODEL_SETTINGS['min_data_threshold']
MinDataThreshold == 100

\* The literal of app_real.py, lines 62 and 89
RealMinData == 100

\* How far from the threshold the row counts of the model go.
MaxExtra == 2

\* A table is held by the numbers of its rows of each kind:
\*   full     gallons, traps, days and Gallons_per_Trap are all numbers
\*   inf      as full, but Gallons_per_Trap is infinite (traps = 0)
\*   partial  gallons, traps and days are numbers, Gallons_per_Trap is NaN
\* and by whether it has the Missed_Cleaning column.
FullCounts ==
    {0, 50} \cup ((MinDataThreshold - MaxExtra)..(MinDataThreshold + MaxExtra))

\* DataProcessor.clean_data has replaced inf by NaN (data_processor.py:64);
\* a table from elsewhere may still hold an infinite Gallons_per_Trap.
MtTables ==
    [full : FullCounts, inf : {0, 1}, partial : {0, 1, 60},
     Missed_Cleaning : {FALSE}]

\* load_and_process_data of app_real.py keeps inf (lines 41-43).
RealTables ==
    [full : FullCounts, inf : {0, 1}, partial : {0, 1, 60},
     Missed_Cleaning : {FALSE}]

\* len(df[feature_cols + ['Missed_Cleaning']].dropna()): inf is not NaN
ModelData(t) == t.full + t.inf

\* len(df[[gallons, traps, days]].dropna())
VolumeData(t) == t.full + t.inf + t.partial

\* model_trainer.py lines 28-61: prepare_features; "none3" is the
\* three-element return of line 44.
MtPrepareFeatures(t) ==
    IF ModelData(t) < MinDataThreshold THEN "none3" ELSE "split"

\* model_trainer.py lines 63-102: what train_missed_cleaning_model returns;
\* RandomForestClassifier.fit raises on an infinite feature (line 73), and
\* the except of line 100 returns False before anything is stored.
MtTrainMissedCleaning(t) == t.inf = 0

\* model_trainer.py lines 104-158: what train_volume_prediction_model returns
MtTrainVolumeStrict(t) == VolumeData(t) > MinDataThreshold
MtTrainVolume(t) == ~(VolumeData(t) < MinDataThreshold)

\* model_trainer.py lines 160-188: train_all_models(df).  Line 167 unpacks
\* the result of prepare_features into four names: the three-element return
\* raises ValueError, caught at line 186.  Line 37 has by then added the
\* target column to the caller's table.
MtTrainAllModels ==
    /\ \E t \in MtTables :
          /\ mt_df' = [t EXCEPT !.Missed_Cleaning = TRUE]
          /\ IF MtPrepareFeatures(t) = "none3" \/ ~MtTrainMissedCleaning(t)
             THEN mt_models' = mt_models /\ mt_result' = "False"
             ELSE IF MtTrainVolume(t)
             THEN /\ mt_models' = mt_models
                         \cup {"missed_cleaning", "volume_prediction"}
                  /\ mt_result' = "True"
             ELSE /\ mt_models' = mt_models \cup {"missed_cleaning"}
                  /\ mt_result' = "False"
    /\ UNCHANGED <<clock, appVars, dpVars, mlVars, fastVars, scriptVars, realVars>>

\* app_real.py lines 20-45: load_and_process_data (no try/except: a sheet
\* that cannot be read ends the process).
RealLoadAndProcessData ==
    /\ real_state = "main"
    /\ \/ \E t \in RealTables : real_df' = t /\ real_state' = "loaded"
       \/ real_df' = real_df /\ real_state' = "crashed"
    /\ UNCHANGED <<clock, appVars, dpVars, mlVars, fastVars, scriptVars, mtVars,
                   real_models, real_resp>>

\* app_real.py lines 47-109: train_models, then __main__ goes on to
\* app.run (lines 452-455).  RandomForestClassifier.fit raises on an
\* infinite feature, which nothing catches.
RealTrainModels ==
    /\ real_state = "loaded"
    /\ real_df' = [real_df EXCEPT !.Missed_Cleaning = TRUE]
    /\ IF ModelData(real_df) > RealMinData /\ real_df.inf > 0
       THEN real_models' = real_models /\ real_state' = "crashed"
       ELSE /\ real_models' =
                 (IF ModelData(real_df) > RealMinData
                  THEN {"missed_cleaning"} ELSE {})
                 \cup (IF VolumeData(real_df) > RealMinData
                       THEN {"volume_prediction"} ELSE {})
            /\ real_state' = "serving"
    /\ UNCHANGED <<clock, appVars, dpVars, mlVars, fastVars, scriptVars, mtVars, real_resp>>

\* app_real.py lines 257-310: /api/predictions; without the classifier
\* missed_prob stays 0 (line 281), without the regressor the predicted
\* volume is the current volume (line 285).
RealPredictions ==
    /\ real_state = "serving"
    /\ real_resp' =
          IF real_models = {} THEN [error |-> "Models not trained"]
          ELSE [missed_prob_from |->
                    IF "missed_cleaning" \in real_models
                    THEN "classifier" ELSE "zero",
                predicted_volume_from |->
                    IF "volume_prediction" \in real_models
                    THEN "regressor" ELSE "current_volume"]
    /\ UNCHANGED <<clock, appVars, dpVars, mlVars, fastVars, scriptVars, mtVars,
                   real_df, real_models, real_state>>

NextTrain ==
    \/ MtTrainAllModels
    \/ RealLoadAndProcessData
    \/ RealTrainModels
    \/ RealPredictions

(***************************************************************************)
(* Properties of the two trainers                                          *)
(***************************************************************************)
\* C9 as claimed: training on fewer than 100 usable records fails and
\* stores no model, neither the classifier nor the regressor.
C9_TooFewRecordsFailsWithoutModel ==
    [][/\ (MtTrainAllModels /\ ModelData(mt_df') < MinDataThreshold)
            => (mt_result' = "False" /\ mt_models' = mt_models)
       /\ (RealTrainModels /\ ModelData(real_df) < MinDataThreshold)
            => (real_state' = "train_failed" /\ real_models' = {})]_vars

C17_TrainingAddsNoColumn ==
    /\ mt_df # None => ~mt_df.Missed_Cleaning
    /\ real_df # None => ~real_df.Missed_Cleaning


(***************************************************************************)
(* backend/scripts/analysis/data_analysis_phase1_real.py (BlueDataAnalyzer)*)
(* and predictive_analysis_phase2_real.py (BlueDataRealisticPredictor).    *)
(* Both read Blue_data.xlsx and derive 'Service Duration' from its         *)
(* 'Collected Date' and 'Discharged Date'; they are two programs, and a    *)
(* behaviour follows one run of one of them.  Dates are day numbers, Str   *)
(* is a text that pandas cannot parse as a date, NaN an empty cell.        *)
(***************************************************************************)
AnDomain ==
    [Collected_Date : {Num(10), Num(20), NaN, Str},
     Discharged_Date : {Num(9), Num(10), Num(15), NaN, Str},
     Gallons : {Num(100)},
     Traps : {Num(1)}]

AnFiles ==
    {[cols |-> {"Collected_Date", "Discharged_Date", "Gallons", "Traps"},
      rows |-> rows] : rows \in SeqsUpTo(AnDomain, MaxRows)}

\* pd.to_datetime(column) without errors='coerce' raises on the first text
\* it cannot parse.
ToDatetimeRaises(rows, c) == \E i \in 1..Len(rows) : rows[i][c] = Str

\* (discharged - collected).dt.days: NaT when either date is missing.
ServiceDuration(r) ==
    IF IsNum(r.Discharged_Date) /\ IsNum(r.Collected_Date)
    THEN Num(Val(r.Discharged_Date) - Val(r.Collected_Date))
    ELSE NaN

AnDateFeatures(r) ==
    With(With(r, "Service_Duration", ServiceDuration(r)),
         "Month", ToPeriodM(r.Collected_Date))

AnDerivedCols == {"Service_Duration", "Month"}

\* BlueDataAnalyzer.load_data, called by main() with no try around it.
AnLoadData ==
    /\ an_state = "main"
    /\ pr_state = "new"
    /\ \E t \in AnFiles :
         IF \/ ToDatetimeRaises(t.rows, "Collected_Date")
            \/ ToDatetimeRaises(t.rows, "Discharged_Date")
         THEN /\ an_df' = t
              /\ an_state' = "crashed"
         ELSE /\ an_df' = [cols |-> t.cols \cup AnDerivedCols,
                           rows |-> [i \in 1..Len(t.rows) |->
                                        AnDateFeatures(t.rows[i])]]
              /\ an_state' = "loaded"
    /\ UNCHANGED <<clock, appVars, dpVars, mlVars, fastVars, trainVars, svcVars,
                   an_insights, prVars, etlVars>>

\* The 'Service Duration' values that Series.mean() takes (it skips NaN).
Durations(rows) ==
    LET known == SelectSeq(rows, LAMBDA r : IsNum(r.Service_Duration))
    IN  [i \in 1..Len(known) |-> Val(known[i].Service_Duration)]

\* 1 / (1 + avg_duration) with avg_duration = total / n, a numpy float:
\* NaN for no value, inf when the average is exactly -1.
ServiceEfficiencyScore(total, n) ==
    IF n = 0 THEN NaN
    ELSE IF n + total = 0 THEN Inf
    ELSE Ratio(n, n + total)

\* BlueDataAnalyzer.analyze_service_performance.
AnAnalyzeServicePerformance ==
    /\ an_state = "loaded"
    /\ LET d == Durations(an_df.rows)
       IN  an_insights' =
             [total_services |-> Len(an_df.rows),
              avg_service_duration_days |->
                  IF Len(d) = 0 THEN NaN ELSE Ratio(SumSeq(d), Len(d)),
              service_efficiency_score |->
                  ServiceEfficiencyScore(SumSeq(d), Len(d))]
    /\ an_state' = "analyzed"
    /\ UNCHANGED <<clock, appVars, dpVars, mlVars, fastVars, trainVars, svcVars,
                   an_df, prVars, etlVars>>

\* 1 / (Service Duration + 1), element-wise on a float column.
ServiceEfficiency(c) ==
    IF ~IsNum(c) THEN NaN
    ELSE IF Val(c) + 1 = 0 THEN Inf
    ELSE Ratio(1, Val(c) + 1)

PrPrepare(r) ==
    With(With(r, "Gallons_per_Trap", Ratio(Val(r.Gallons), Val(r.Traps) + 1)),
         "Service_Efficiency", ServiceEfficiency(r.Service_Duration))

\* BlueDataRealisticPredictor.load_and_prepare_data; the label encodings of
\* the categorical columns are left out (they read no date).
PrLoadAndPrepareData ==
    /\ pr_state = "new"
    /\ an_state = "main"
    /\ \E t \in AnFiles :
         IF \/ ToDatetimeRaises(t.rows, "Collected_Date")
            \/ ToDatetimeRaises(t.rows, "Discharged_Date")
         THEN /\ pr_df' = t
              /\ pr_processed' = None
              /\ pr_state' = "crashed"
         ELSE LET rows == [i \in 1..Len(t.rows) |-> AnDateFeatures(t.rows[i])]
              IN  /\ pr_df' = [cols |-> t.cols \cup AnDerivedCols,
                               rows |-> rows]
                  /\ pr_processed' =
                        [cols |-> t.cols \cup AnDerivedCols
                                    \cup {"Gallons_per_Trap", "Service_Efficiency"},
                         rows |-> [i \in 1..Len(rows) |-> PrPrepare(rows[i])]]
                  /\ pr_state' = "prepared"
    /\ UNCHANGED <<clock, appVars, dpVars, mlVars, fastVars, trainVars, svcVars,
                   anVars, etlVars>>

NextAnalysis ==
    \/ AnLoadData
    \/ AnAnalyzeServicePerformance
    \/ PrLoadAndPrepareData



\* C16: service_duration_days is never negative: a record discharged before
\* it was collected has its duration clamped to 0, and a record with no
\* discharge date has a null duration.
C16_DurationNeverNegative ==
    /\ an_state \in {"loaded", "analyzed"} =>
         \A i \in 1..Len(an_df.rows) :
            LET r == an_df.rows[i]
            IN  /\ IsNum(r.Service_Duration) => Val(r.Service_Duration) >= 0
                /\ r.Discharged_Date = NaN => r.Service_Duration = NaN
    /\ pr_state = "prepared" =>
         \A i \in 1..Len(pr_processed.rows) :
            LET r == pr_processed.rows[i]
            IN  /\ IsNum(r.Service_Duration) => Val(r.Service_Duration) >= 0
                /\ r.Discharged_Date = NaN => r.Service_Duration = NaN

\* C20 as claimed: a record with an unparseable date never aborts the run:
\* once the sheet is read the load completes, and the table has its
\* 'Service Duration' column.
C20_BadDateNeverAborts ==
    /\ an_df # None =>
          (an_state # "crashed" /\ "Service_Duration" \in an_df.cols)
    /\ pr_df # None =>
          (pr_state # "crashed" /\ pr_processed # None)

(***************************************************************************)
(* scripts/etl.py (BlueDataETL): load_data, validate_schema, clean_data,   *)
(* save_processed_data and generate_summary_stats, the steps of            *)
(* run_pipeline.  Columns: Outlet is 'Entity Mapping.Outlet', Gallons is   *)
(* 'Sum of Gallons Collected', Traps is 'Sum of No of Traps'.  Dates are   *)
(* day numbers, coordinates are in 1/10000 degree, Risk_Score is in        *)
(* units of 1/Scale.                                                       *)
(***************************************************************************)
EtlDomain ==
    [Outlet : {"o1", "o2"},
     Gallons : {Num(100), Num(300), NaN, Str},
     Traps : {Num(2), Num(0), NaN},
     Area : {"Al Quoz", NA},
     Category : {"Restaurant", NA},
     Date : {Num(-40), Num(5), NaN, Str},
     Latitude : {Num(251500)},
     Longitude : {Num(552500)}]

EtlBaseRow ==
    [Outlet |-> "o1", Gallons |-> Num(100), Traps |-> Num(2),
     Area |-> "Al Quoz", Category |-> "Restaurant", Date |-> Num(-40),
     Latitude |-> Num(251500), Longitude |-> Num(552500)]

\* The rows of the sheet: a well-formed row changed in one column.
EtlRawRows ==
    {r \in EtlDomain :
        \E c \in DOMAIN r : \A x \in DOMAIN r \ {c} : r[x] = EtlBaseRow[x]}

EtlCoordCols == {"Latitude", "Longitude"}

Drop(r, cs) == [x \in DOMAIN r \ cs |-> r[x]]

\* The sheets that lack the columns cs, of at most n rows.
EtlSheets(cs, n) ==
    {Table(DOMAIN EtlBaseRow \ cs, rows) :
        rows \in SeqsUpTo({Drop(r, cs) : r \in EtlRawRows}, n)}

\* The sheets: complete, without coordinate columns, without the required
\* 'Category' column, and (one row shorter, for the number of random draws
\* they cause) without the 'Date' column.
EtlFiles ==
    EtlSheets({}, MaxRows) \cup EtlSheets(EtlCoordCols, MaxRows)
    \cup EtlSheets({"Category"}, MaxRows) \cup EtlSheets({"Date"}, MaxRows - 1)

\* lines 30-50: load_data; False when the file is missing or unreadable.
EtlLoadData ==
    /\ etl_state = "new"
    /\ \/ \E t \in EtlFiles : etl_df' = t /\ etl_state' = "loaded"
       \/ etl_df' = etl_df /\ etl_state' = "load_failed"
    /\ UNCHANGED <<clock, appVars, dpVars, mlVars, fastVars, trainVars, svcVars,
                   anVars, prVars, etl_processed, etl_summary>>

\* lines 52-82: validate_schema
EtlValidateSchema ==
    /\ etl_state = "loaded"
    /\ etl_state' = IF RequiredCols \subseteq etl_df.cols
                    THEN "validated" ELSE "schema_failed"
    /\ UNCHANGED <<clock, appVars, dpVars, mlVars, fastVars, trainVars, svcVars,
                   anVars, prVars, etl_df, etl_processed, etl_summary>>

\* lines 93-98: fillna; a text in a numeric column is not missing
EtlFillna(r) ==
    [r EXCEPT !.Gallons = IF @ = NaN THEN Num(0) ELSE @,
              !.Traps = IF @ = NaN THEN Num(1) ELSE @,
              !.Area = FillUnknown(@),
              !.Category = FillUnknown(@)]

\* lines 100-108: every column with 'date' in its name, errors='coerce'
EtlDates(r) ==
    IF "Date" \in DOMAIN r THEN [r EXCEPT !.Date = ToDatetime(@)] ELSE r

\* lines 133-143: area_coordinates (the modelled areas)
AreaCoordinates(area) ==
    IF area = "Al Quoz" THEN <<251500, 552500>> ELSE <<252048, 552708>>

\* lines 149-150: the two offsets np.random.uniform draws, two outcomes
CoordOffsets == {<<-50, 50>>, <<50, -50>>}

\* line 174 and 177: np.random.randint(1, 90), two outcomes
SyntheticDays == {1, 89}

\* lines 191-192: np.random.choice(months), two outcomes
SyntheticMonths == {0, 1}

\* lines 145-156: get_coordinates and the two new columns
EtlCoordinates(r, off) ==
    With(With(r, "lat", Num(AreaCoordinates(r.Area)[1] + off[1])),
         "lon", Num(AreaCoordinates(r.Area)[2] + off[2]))

\* lines 166-170: (pd.Timestamp.now() - Date).dt.days
EtlDaysSince(r, today) ==
    IF IsNum(r.Date) THEN Num(today - Val(r.Date)) ELSE NaN

\* lines 180-183: gallons / traps, .fillna(0); x / 0 stays infinite
EtlGallonsPerTrap(r) ==
    IF Val(r.Traps) = 0
    THEN IF Val(r.Gallons) = 0 THEN Num(0) ELSE Inf
    ELSE Ratio(Val(r.Gallons), Val(r.Traps))

MinOf(S) == CHOOSE x \in S : \A y \in S : x <= y
MaxOf(S) == CHOOSE x \in S : \A y \in S : x >= y

\* lines 199-214: _calculate_risk_score.  min() and max() skip NaN; a
\* constant column divides 0 by 0, and every NaN becomes 0.5.
EtlCalculateRiskScore(rows, i) ==
    LET G == {Val(rows[k].Gallons) : k \in 1..Len(rows)}
        D == {Val(rows[k].Days_Since_Collection) :
                 k \in {j \in 1..Len(rows) :
                           IsNum(rows[j].Days_Since_Collection)}}
        r == rows[i]
    IN  IF \/ ~IsNum(r.Days_Since_Collection)
           \/ MaxOf(G) = MinOf(G)
           \/ MaxOf(D) = MinOf(D)
        THEN Num(Scale \div 2)
        ELSE Num((4 * Scale * (Val(r.Gallons) - MinOf(G)))
                     \div (10 * (MaxOf(G) - MinOf(G)))
                 + (6 * Scale * (Val(r.Days_Since_Collection) - MinOf(D)))
                     \div (10 * (MaxOf(D) - MinOf(D))))

\* lines 216-228: _assign_grade, thresholds 0.25, 0.5 and 0.75
EtlAssignGrade(score) ==
    IF 4 * score < Scale THEN "A"
    ELSE IF 2 * score < Scale THEN "B"
    ELSE IF 4 * score < 3 * Scale THEN "C"
    ELSE "D"

\* The text in a numeric column on which the division of line 181 raises.
EtlDivisionRaises(rows) ==
    \E i \in 1..Len(rows) : rows[i].Gallons = Str \/ rows[i].Traps = Str

\* lines 90-114 up to the division: copy, fillna, dates, coordinates and
\* Days_Since_Collection.
EtlBeforeDivision(t, today, offs, days) ==
    [i \in 1..Len(t.rows) |->
        LET a == EtlDates(EtlFillna(t.rows[i]))
            b == IF EtlCoordCols \subseteq t.cols THEN a
                 ELSE EtlCoordinates(a, offs[i])
        IN  With(b, "Days_Since_Collection",
                 IF "Date" \in t.cols THEN EtlDaysSince(b, today)
                 ELSE Num(days[i]))]

\* lines 180-197: the rest of _engineer_features
EtlAfterDivision(t, rows, months) ==
    LET c == [i \in 1..Len(rows) |->
                 With(With(rows[i], "Gallons_per_Trap",
                           EtlGallonsPerTrap(rows[i])),
                      "Month", IF "Date" \in t.cols
                               THEN ToPeriodM(rows[i].Date)
                               ELSE Num(months[i]))]
        d == [i \in 1..Len(c) |->
                 With(c[i], "Risk_Score", EtlCalculateRiskScore(c, i))]
    IN  [i \in 1..Len(d) |->
            With(d[i], "Grade", EtlAssignGrade(Val(d[i].Risk_Score)))]

EtlNewCols(t) ==
    (IF EtlCoordCols \subseteq t.cols THEN {} ELSE {"lat", "lon"})
    \cup {"Days_Since_Collection"}

\* lines 84-122: clean_data on self.df; it can be called again on the same
\* self.df.  The random draws are made only where the code makes them.
EtlCleanData ==
    /\ etl_state \in {"validated", "cleaned"}
    /\ LET t == etl_df
           n == Len(t.rows)
       IN  \E offs \in [1..n -> IF EtlCoordCols \subseteq t.cols
                                THEN {<<0, 0>>} ELSE CoordOffsets],
              days \in [1..n -> IF "Date" \in t.cols
                                THEN {0} ELSE SyntheticDays],
              months \in [1..n -> IF "Date" \in t.cols
                                  THEN {0} ELSE SyntheticMonths] :
              LET rows == EtlBeforeDivision(t, clock, offs, days)
              IN  IF EtlDivisionRaises(rows)
                  THEN /\ etl_processed' =
                             Table(t.cols \cup EtlNewCols(t), rows)
                       /\ etl_state' = "clean_failed"
                  ELSE /\ etl_processed' =
                             Table(t.cols \cup EtlNewCols(t)
                                     \cup {"Gallons_per_Trap", "Month",
                                           "Risk_Score", "Grade"},
                                   EtlAfterDivision(t, rows, months))
                       /\ etl_state' = "cleaned"
    /\ UNCHANGED <<clock, appVars, dpVars, mlVars, fastVars, trainVars, svcVars,
                   anVars, prVars, etl_df, etl_summary>>

EtlGrades == {"A", "B", "C", "D"}

\* lines 256-283: generate_summary_stats; without a 'Latitude' column the
\* lookup of line 273 raises and the summary is the empty dict.
EtlSummaryStats(t) ==
    IF "Latitude" \notin t.cols THEN [empty |-> TRUE]
    ELSE [total_records |-> Len(t.rows),
          total_outlets |-> Cardinality({t.rows[i].Outlet : i \in 1..Len(t.rows)}),
          total_gallons |-> SumSeq([i \in 1..Len(t.rows) |-> Val(t.rows[i].Gallons)]),
          grades |-> [g \in EtlGrades |->
                         Cardinality({i \in 1..Len(t.rows) : t.rows[i].Grade = g})]]

\* lines 230-254 and 304-314: save_processed_data, then the summary is
\* generated and written, and run_pipeline returns True.
EtlSaveAndSummarise ==
    /\ etl_state = "cleaned"
    /\ etl_summary' = EtlSummaryStats(etl_processed)
    /\ etl_state' = "done"
    /\ UNCHANGED <<clock, appVars, dpVars, mlVars, fastVars, trainVars, svcVars,
                   anVars, prVars, etl_df, etl_processed>>

NextETL ==
    \/ EtlLoadData
    \/ EtlValidateSchema
    \/ EtlCleanData
    \/ EtlSaveAndSummarise
    \/ Tick

(***************************************************************************)
(* Properties of scripts/etl.py                                            *)
(***************************************************************************)
\* C18 as claimed: derivation depends only on its input: a second
\* clean_data on the same loaded records gives the same derived table
\* (Days_Since_Collection, Month, Risk_Score and Grade included).
C18_DeriveReproducible ==
    [][(etl_state = "cleaned" /\ EtlCleanData)
          => etl_processed' = etl_processed]_vars

\* C19 as claimed: the grade the ETL assigns to a record is the grade the
\* prediction-time grade function of scripts/train.py returns for the same
\* risk score.
C19_OneGradeDefinition ==
    etl_state \in {"cleaned", "done"} =>
        \A i \in 1..Len(etl_processed.rows) :
            MlAssignGrade(Val(etl_processed.rows[i].Risk_Score))
                = etl_processed.rows[i].Grade

\* C23 as claimed: run_pipeline returns True only after load, validation
\* and cleaning have succeeded, and then the summary it has written is the
\* non-empty statistics of the processed table.
C23_TrueMeansFullSummary ==
    etl_state = "done" =>
        /\ RequiredCols \subseteq etl_df.cols
        /\ "Grade" \in etl_processed.cols
        /\ "total_records" \in DOMAIN etl_summary
        /\ etl_summary = EtlSummaryStats(etl_processed)
        /\ etl_summary.total_records = Len(etl_processed.rows)

(***************************************************************************)
(* backend/utils/analysis/business_analyzer.py (BusinessAnalyzer): set_data,*)
(* the analyses and generate_business_insights.  The table is a cleaned    *)
(* table of the DataProcessor; of each analysis the model keeps the fields *)
(* that generate_business_insights and its three helpers read.             *)
(***************************************************************************)
BaDomain ==
    [Outlet : {"o1"},
     Area : {"Dubai", "Sharjah"},
     Zone : {"Z1"},
     Category : {"Restaurant"},
     Gallons : {Num(100), Num(300)},
     Traps : {Num(2)},
     Days_Since_Collection : {Num(10), Num(40)},
     Month : {Num(0), Num(30)}]

BaBaseRow ==
    [Outlet |-> "o1", Area |-> "Dubai", Zone |-> "Z1",
     Category |-> "Restaurant", Gallons |-> Num(100), Traps |-> Num(2),
     Days_Since_Collection |-> Num(10), Month |-> Num(0)]

\* The rows of a table: a base row changed in one column.
BaRows ==
    {r \in BaDomain :
        \E c \in DOMAIN r : \A x \in DOMAIN r \ {c} : r[x] = BaBaseRow[x]}

\* The tables handed to set_data: with all columns, and (one row shorter)
\* without 'Zone'.
BaTables ==
    {Table(DOMAIN BaBaseRow, rows) : rows \in SeqsUpTo(BaRows, MaxRows)}
    \cup {Table(DOMAIN BaBaseRow \ {"Zone"}, rows) :
             rows \in SeqsUpTo({Drop(r, {"Zone"}) : r \in BaRows}, MaxRows - 1)}

\* The group keys of the model in the order groupby sorts them.
KeyOrder == <<"Dubai", "Restaurant", "Sharjah">>

\* The keys of groupby(col), sorted.
BaKeys(rows, col) ==
    SelectSeq(KeyOrder, LAMBDA k : \E i \in 1..Len(rows) : rows[i][col] = k)

BaGroup(rows, col, k) == SelectSeq(rows, LAMBDA r : r[col] = k)

BaGallons(rows) == SumSeq([i \in 1..Len(rows) |-> Val(rows[i].Gallons)])

\* mean of Days_Since_Collection, .round(2), in hundredths of a day
BaMeanDays(rows) ==
    (200 * SumSeq([i \in 1..Len(rows) |-> Val(rows[i].Days_Since_Collection)])
        + Len(rows)) \div (2 * Len(rows))

\* (gallons / gallons.max()) * wg/10 + (1 - days / days.max()) * wd/10 of
\* the group k, times 10 * gallons.max() * days.max() (the same factor for
\* every group of the table).
BaScore(rows, col, k, wg, wd) ==
    LET keys == BaKeys(rows, col)
        gmax == MaxOf({BaGallons(BaGroup(rows, col, x)) : x \in Range(keys)})
        dmax == MaxOf({BaMeanDays(BaGroup(rows, col, x)) : x \in Range(keys)})
    IN  wg * BaGallons(BaGroup(rows, col, k)) * dmax
          + wd * (dmax - BaMeanDays(BaGroup(rows, col, k))) * gmax

\* Series.idxmax(): the first key with the largest value
BaIdxMax(keys, val) ==
    keys[CHOOSE i \in 1..Len(keys) :
            /\ \A j \in 1..Len(keys) : val[keys[j]] <= val[keys[i]]
            /\ \A j \in 1..(i - 1) : val[keys[j]] < val[keys[i]]]

BaIdxMin(keys, val) == BaIdxMax(keys, [k \in Range(keys) |-> 0 - val[k]])

\* DataFrame.nsmallest(n, column): ascending, the first of equals first
RECURSIVE BaNSmallest(_, _, _)
BaNSmallest(keys, val, n) ==
    IF n = 0 \/ keys = <<>> THEN <<>>
    ELSE LET k == BaIdxMin(keys, val)
         IN  <<k>> \o BaNSmallest(SelectSeq(keys, LAMBDA x : x # k), val, n - 1)

BaNLargest(keys, val, n) ==
    BaNSmallest(keys, [k \in Range(keys) |-> 0 - val[k]], n)

\* lines 36-46: the gallons of each month in month order, and the sign of
\* the mean growth rate (the model has at most two months, so at most one
\* rate, (second - first) / first with first > 0).
BaMonthlyRevenue(rows) ==
    LET months == SortAsc(Unique([i \in 1..Len(rows) |->
                                     Val(ToPeriodM(rows[i].Month))]))
    IN  [m \in 1..Len(months) |->
            BaGallons(SelectSeq(rows, LAMBDA r :
                                   Val(ToPeriodM(r.Month)) = months[m]))]

BaTrendDirection(rows) ==
    LET rev == BaMonthlyRevenue(rows)
    IN  IF Len(rev) < 2 \/ rev[2] = rev[1] THEN "stable"
        ELSE IF rev[2] > rev[1] THEN "increasing" ELSE "decreasing"

\* lines 27-66: analyze_revenue_trends; on a table without rows
\* seasonal_patterns.idxmax() raises (line 57), and the method returns None.
BaAnalyzeRevenueTrends(t) ==
    IF Len(t.rows) = 0 THEN None
    ELSE [total_revenue |-> BaGallons(t.rows),
          trend_direction |-> BaTrendDirection(t.rows)]

BaHighRisk(rows) ==
    SelectSeq(rows, LAMBDA r :
                 Val(r.Days_Since_Collection) > HighRiskThresholdDays)

\* lines 68-112: analyze_operational_efficiency; line 96 divides by
\* len(self.df), two Python ints: ZeroDivisionError on a table without rows.
BaAnalyzeOperationalEfficiency(t) ==
    IF Len(t.rows) = 0 THEN None
    ELSE LET n == Len(t.rows)
             h == Len(BaHighRisk(t.rows))
         IN  [total_outlets |-> Cardinality({t.rows[i].Outlet : i \in 1..n}),
              high_risk_outlets |-> h,
              risk_percentage |-> Ratio(100 * h, n),
              efficiency_score |-> Ratio(100 * n - 100 * h, n)]

\* lines 114-181: analyze_geographic_performance; KeyError without the
\* 'Zone' column (line 133), idxmax() of an empty column raises (line 169).
BaAnalyzeGeographicPerformance(t) ==
    IF "Zone" \notin t.cols \/ Len(t.rows) = 0 THEN None
    ELSE LET keys == BaKeys(t.rows, "Area")
             score == [k \in Range(keys) |-> BaScore(t.rows, "Area", k, 6, 4)]
             gallons == [k \in Range(keys) |->
                            BaGallons(BaGroup(t.rows, "Area", k))]
         IN  [top_performing_areas |-> BaNLargest(keys, score, 3),
              bottom_performing_areas |-> BaNSmallest(keys, score, 3),
              most_active_area |-> BaIdxMax(keys, gallons)]

\* lines 183-233: analyze_outlet_categories; idxmax() of an empty column
\* raises (line 205).
BaAnalyzeOutletCategories(t) ==
    IF Len(t.rows) = 0 THEN None
    ELSE LET keys == BaKeys(t.rows, "Category")
             score == [k \in Range(keys) |->
                          BaScore(t.rows, "Category", k, 7, 3)]
         IN  [best_performing_category |-> BaIdxMax(keys, score),
              worst_performing_category |-> BaIdxMin(keys, score)]

\* self.analysis_results[key] = analysis, which a failed analysis skips
BaStore(results, key, analysis) ==
    IF analysis = None THEN results ELSE With(results, key, analysis)

\* lines 19-25: set_data
BaSetData ==
    /\ \E t \in BaTables : ba_df' = t
    /\ UNCHANGED <<clock, appVars, dpVars, mlVars, fastVars, trainVars,
                   anVars, prVars, etlVars, mainVars, ba_results, ba_ret>>

\* lines 68-112 as a call of its own
BaCallOperationalEfficiency ==
    /\ ba_df # None
    /\ LET a == BaAnalyzeOperationalEfficiency(ba_df)
       IN  /\ ba_results' = BaStore(ba_results, "operational_efficiency", a)
           /\ ba_ret' = [call |-> "analyze_operational_efficiency",
                         value |-> a]
    /\ UNCHANGED <<clock, appVars, dpVars, mlVars, fastVars, trainVars,
                   anVars, prVars, etlVars, mainVars, ba_df>>

\* A percentage n / d against a whole number
RatioAbove(q, x) == q[2] > x * q[3]
RatioBelow(q, x) == q[2] < x * q[3]

\* lines 278-300: _generate_recommendations
BaGenerateRecommendations(results) ==
    (IF "operational_efficiency" \in DOMAIN results
     THEN (IF RatioAbove(results["operational_efficiency"].risk_percentage, 20)
           THEN <<[msg |-> "Increase service frequency", about |-> <<>>]>>
           ELSE <<>>)
          \o (IF RatioBelow(results["operational_efficiency"].efficiency_score, 70)
              THEN <<[msg |-> "Implement preventive maintenance", about |-> <<>>]>>
              ELSE <<>>)
     ELSE <<>>)
    \o (IF "revenue_trends" \in DOMAIN results
           /\ results["revenue_trends"].trend_direction = "decreasing"
        THEN <<[msg |-> "Review pricing strategy", about |-> <<>>]>>
        ELSE <<>>)
    \o (IF "geographic_performance" \in DOMAIN results
           /\ Len(results["geographic_performance"].bottom_performing_areas) > 0
        THEN <<[msg |-> "Focus resources",
                about |-> results["geographic_performance"].bottom_performing_areas]>>
        ELSE <<>>)

\* lines 302-311: _generate_risk_alerts
BaGenerateRiskAlerts(results) ==
    IF "operational_efficiency" \in DOMAIN results
       /\ RatioAbove(results["operational_efficiency"].risk_percentage, 30)
    THEN <<[msg |-> "High risk alert",
            pct |-> results["operational_efficiency"].risk_percentage]>>
    ELSE <<>>

\* lines 313-326: _identify_opportunities
BaIdentifyOpportunities(results) ==
    (IF "outlet_categories" \in DOMAIN results
     THEN <<[msg |-> "Expand services",
             about |-> results["outlet_categories"].best_performing_category]>>
     ELSE <<>>)
    \o (IF "geographic_performance" \in DOMAIN results
        THEN <<[msg |-> "Focus expansion",
                about |-> results["geographic_performance"].most_active_area]>>
        ELSE <<>>)

\* lines 249-263: the insights, built from the four return values and from
\* self.analysis_results
BaInsights(rev, eff, results) ==
    [key_metrics |->
        [total_revenue |-> IF rev # None THEN Num(rev.total_revenue) ELSE Num(0),
         total_outlets |-> IF eff # None THEN Num(eff.total_outlets) ELSE Num(0),
         efficiency_score |-> IF eff # None THEN eff.efficiency_score ELSE Num(0),
         risk_percentage |-> IF eff # None THEN eff.risk_percentage ELSE Num(0)],
     trends |->
        [revenue_trend |-> IF rev # None THEN rev.trend_direction ELSE "unknown"],
     recommendations |-> BaGenerateRecommendations(results),
     risk_alerts |-> BaGenerateRiskAlerts(results),
     opportunities |-> BaIdentifyOpportunities(results)]

\* The analysis_results after the four analyses of lines 244-247 have run
\* on the table t.
BaAfterAnalyses(results, t) ==
    BaStore(BaStore(BaStore(BaStore(results,
        "revenue_trends", BaAnalyzeRevenueTrends(t)),
        "operational_efficiency", BaAnalyzeOperationalEfficiency(t)),
        "geographic_performance", BaAnalyzeGeographicPerformance(t)),
        "outlet_categories", BaAnalyzeOutletCategories(t))

\* lines 235-276: generate_business_insights
BaGenerateBusinessInsights ==
    /\ IF ba_df = None
       THEN /\ ba_ret' = [call |-> "generate_business_insights", value |-> None]
            /\ ba_results' = ba_results
       ELSE LET after == BaAfterAnalyses(ba_results, ba_df)
                insights == BaInsights(BaAnalyzeRevenueTrends(ba_df),
                                       BaAnalyzeOperationalEfficiency(ba_df),
                                       after)
            IN  /\ ba_results' = With(after, "business_insights", insights)
                /\ ba_ret' = [call |-> "generate_business_insights",
                              value |-> insights]
    /\ UNCHANGED <<clock, appVars, dpVars, mlVars, fastVars, trainVars,
                   anVars, prVars, etlVars, mainVars, ba_df>>

NextBA ==
    \/ BaSetData
    \/ BaCallOperationalEfficiency
    \/ BaGenerateBusinessInsights

(***************************************************************************)
(* Properties of the BusinessAnalyzer                                      *)
(***************************************************************************)
\* C21 as claimed: analysing a table without records is not an error: on
\* such a table analyze_operational_efficiency returns a mapping, not None.
C21_EmptyTableIsNoError ==
    [][(BaCallOperationalEfficiency /\ Len(ba_df.rows) = 0)
          => ba_ret'.value # None]_vars

\* C29 as claimed: the recommendations, risk alerts and opportunities that
\* generate_business_insights returns are those of the analyses that succeed
\* on the table set at that moment; nothing of an earlier table is used.
C29_InsightsFromCurrentTable ==
    [][(BaGenerateBusinessInsights /\ ba_df # None) =>
          LET fresh == BaAfterAnalyses(<<>>, ba_df)
          IN  /\ ba_ret'.value.recommendations = BaGenerateRecommendations(fresh)
              /\ ba_ret'.value.risk_alerts = BaGenerateRiskAlerts(fresh)
              /\ ba_ret'.value.opportunities = BaIdentifyOpportunities(fresh)]_vars

(***************************************************************************)
(* backend/app/main.py: initialize_app and /api/scheduling                  *)
(***************************************************************************)
\* model_trainer.py lines 218-221: the model files load_models looks for, in
\* the order of its loop.
ModelFiles == <<"missed_cleaning", "volume_prediction">>

\* What DataProcessor holds after clean_data or load_processed_data: a
\* cleaned table has no infinite Gallons_per_Trap (data_processor.py:64).
MainTables == {t \in MtTables : t.inf = 0}

\* model_trainer.py lines 213-245: load_models with the files `files` on
\* disk, of which `broken` cannot be read.  The loop stores each file it has
\* read; joblib.load raising on a file ends the loop (line 243).
MainLoadedModels(files, broken) ==
    IF ModelFiles[1] \in broken THEN {}
    ELSE IF ModelFiles[2] \in broken THEN files \cap {ModelFiles[1]}
    ELSE files

\* model_trainer.py lines 241 and 243-245: what load_models returns
MainLoadModels(files, broken) ==
    IF broken # {} THEN FALSE ELSE Cardinality(files) > 0

\* model_trainer.py lines 160-188: the keys train_all_models adds on t
MainTrained(t) ==
    IF MtPrepareFeatures(t) = "none3" \/ ~MtTrainMissedCleaning(t) THEN {}
    ELSE IF MtTrainVolume(t) THEN {"missed_cleaning", "volume_prediction"}
    ELSE {"missed_cleaning"}

\* model_trainer.py lines 160-188: what train_all_models returns on t
MainTrainAllModels(t) ==
    /\ MtPrepareFeatures(t) = "split"
    /\ MtTrainMissedCleaning(t)
    /\ MtTrainVolume(t)

\* main.py lines 419-455: initialize_app.  cache is the processed table on
\* disk (None: no readable pickle), raw the result of load_data and
\* clean_data (None: one of them failed), files and broken the model files
\* on disk.  generate_business_insights catches its own failures
\* (business_analyzer.py:274) and its result is not looked at.
MainInitializeApp ==
    /\ main_ret = "new"
    /\ \E cache \in MainTables \cup {None}, raw \in MainTables \cup {None},
          files \in SUBSET Range(ModelFiles) :
       \E broken \in SUBSET files :
          LET t == IF cache # None THEN cache ELSE raw
              loaded == MainLoadedModels(files, broken)
          IN  IF t = None
              THEN /\ main_df' = None
                   /\ main_models' = main_models
                   /\ main_loaded' = main_loaded
                   /\ main_ret' = "False"
              ELSE IF MainLoadModels(files, broken)
              THEN /\ main_df' = t
                   /\ main_models' = loaded
                   /\ main_loaded' = loaded
                   /\ main_ret' = "True"
              ELSE /\ main_df' = [t EXCEPT !.Missed_Cleaning = TRUE]
                   /\ main_models' = loaded \cup MainTrained(t)
                   /\ main_loaded' = loaded
                   /\ main_ret' = IF MainTrainAllModels(t)
                                  THEN "True" ELSE "False"
    /\ UNCHANGED <<clock, appVars, dpVars, mlVars, fastVars, trainVars,
                   anVars, prVars, etlVars, baVars, main_sched>>

\* main.py line 261: head(20)
MainHead == 20

\* main.py line 263: the step of the range
MainWeekSize == 5

\* The numbers of rows get_high_risk_outlets may return.
HighRiskCounts == 0..(MainHead + MaxExtra)

\* data_processor.py lines 124-129: the columns of the frame that
\* get_high_risk_outlets returns; 'Entity Mapping.Outlet' is its index.
HighRiskColumns ==
    {"Days_Since_Collection", "Sum of Gallons Collected", "Area", "Zone"}

\* main.py lines 260-284: the weekly schedule over n high-risk outlets,
\* each outlet held by its rank.
MainWeeklySchedule(n) ==
    LET m == Min(n, MainHead)
        starts == {i \in 0..(m - 1) : i % MainWeekSize = 0}
    IN  [w \in 1..Cardinality(starts) |->
           [week |-> w,
            outlets |-> [k \in 1..Min(MainWeekSize,
                                      m - (w - 1) * MainWeekSize) |->
                           (w - 1) * MainWeekSize + k]]]

\* main.py lines 287-290: groupby('Zone').agg over the columns
\* 'Entity Mapping.Outlet' and 'Sum of Gallons Collected'; a key that is
\* not a column of the grouped frame raises KeyError.
MainZoneBreakdownRaises ==
    ~({"Entity Mapping.Outlet", "Sum of Gallons Collected"}
         \subseteq HighRiskColumns \ {"Zone"})

\* main.py lines 250-320: /api/scheduling, served once initialize_app has
\* returned True (lines 462-464); the except of line 318 answers the error.
MainScheduling ==
    /\ main_ret = "True"
    /\ \E n \in HighRiskCounts :
          main_sched' =
             IF main_df = None THEN [error |-> "Data not loaded"]
             ELSE IF MainZoneBreakdownRaises
             THEN [error |-> "KeyError", high_risk |-> n]
             ELSE [weekly_schedule |-> MainWeeklySchedule(n),
                   total_inspections_planned |-> n,
                   estimated_duration_weeks |-> Len(MainWeeklySchedule(n)),
                   high_risk |-> n]
    /\ UNCHANGED <<clock, appVars, dpVars, mlVars, fastVars, trainVars,
                   anVars, prVars, etlVars, baVars,
                   main_df, main_models, main_loaded, main_ret>>

NextMain ==
    \/ MainInitializeApp
    \/ MainScheduling

\* C25 as claimed: when initialize_app has returned True the table is loaded
\* and both models are in model_trainer.models, whichever way they got there.
C25_InitializedMeansBothModels ==
    main_ret = "True" =>
        /\ main_df # None
        /\ Range(ModelFiles) \subseteq main_models

\* Integer ceiling of a / b for b > 0.
CeilDiv(a, b) == (a + b - 1) \div b

\* C27 as claimed: an answer of /api/scheduling on loaded data carries a
\* weekly schedule that places the first min(n, 20) high-risk outlets in
\* rank order, five per week, only the last week shorter, none empty, and
\* estimated_duration_weeks is ceil(min(n, 20) / 5).
C27_WeeklyScheduleChunks ==
    (main_sched # NoResp /\ main_df # None) =>
        /\ "weekly_schedule" \in DOMAIN main_sched
        /\ LET ws == main_sched.weekly_schedule
               m == Min(main_sched.high_risk, MainHead)
           IN  /\ main_sched.estimated_duration_weeks = CeilDiv(m, MainWeekSize)
               /\ Len(ws) = CeilDiv(m, MainWeekSize)
               /\ \A w \in 1..Len(ws) :
                     /\ Len(ws[w].outlets) > 0
                     /\ w < Len(ws) => Len(ws[w].outlets) = MainWeekSize
                     /\ \A k \in 1..Len(ws[w].outlets) :
                           ws[w].outlets[k] = (w - 1) * MainWeekSize + k
               /\ SumSeq([w \in 1..Len(ws) |-> Len(ws[w].outlets)]) = m

(***************************************************************************)
(* Properties of the models and endpoints of backend/app.py                *)
(***************************************************************************)
\* The feature a fitted column holds (an encoded column holds the feature
\* it encodes).
AppFeatureOf(column) ==
    IF column = "Outlet_Type_Encoded" THEN "Outlet_Type"
    ELSE IF column = "Location_Encoded" THEN "Location"
    ELSE column

\* C22 as claimed: predict gets the columns the model was fitted on, in
\* that order, and every feature-importance mapping pairs importance value
\* k with the k-th fitted column.
C22_FeatureOrderConsistent ==
    /\ \A m \in models : AppPredictColumns(m) = fitted[m]
    /\ (preds # NoResp /\ "feature_importance" \in DOMAIN preds) =>
          \A m \in DOMAIN preds.feature_importance :
             \A k \in 1..Len(preds.feature_importance[m]) :
                preds.feature_importance[m][k].label
                   = AppFeatureOf(preds.feature_importance[m][k].importance_of)

Init ==
    /\ clock = 0
    /\ df = None
    /\ models = {}
    /\ app_pc = "main"
    /\ sched = NoResp
    /\ summary = NoResp
    /\ preds = NoResp
    /\ fitted = <<>>
    /\ dp_df = None
    /\ dp_state = "new"
    /\ dp_resp = NoResp
    /\ ml_df = None
    /\ ml_models = {}
    /\ ml_predictions = None
    /\ ml_state = "new"
    /\ ml_kpi = None
    /\ ml_snapshot = [files |-> <<>>, items |-> <<>>, models |-> {}]
    /\ fast_data = None
    /\ fast_resp = NoResp
    /\ mt_df = None
    /\ mt_models = {}
    /\ mt_result = "none"
    /\ real_df = None
    /\ real_models = {}
    /\ real_state = "main"
    /\ real_resp = NoResp
    /\ an_df = None
    /\ an_insights = NoResp
    /\ an_state = "main"
    /\ pr_df = None
    /\ pr_processed = None
    /\ pr_state = "new"
    /\ etl_df = None
    /\ etl_processed = None
    /\ etl_state = "new"
    /\ etl_summary = NoResp
    /\ ba_df = None
    /\ ba_results = <<>>
    /\ ba_ret = NoResp
    /\ main_df = None
    /\ main_models = {}
    /\ main_loaded = {}
    /\ main_ret = "new"
    /\ main_sched = NoResp

SpecApp == Init /\ [][NextApp]_vars
SpecDP == Init /\ [][NextDP]_vars
SpecHighRisk == Init /\ [][NextHighRisk]_vars
SpecML == Init /\ [][NextML]_vars
SpecFast == Init /\ [][NextFast]_vars
SpecTrain == Init /\ [][NextTrain]_vars
SpecAnalysis == Init /\ [][NextAnalysis]_vars
SpecETL == Init /\ [][NextETL]_vars
SpecBA == Init /\ [][NextBA]_vars
SpecMain == Init /\ [][NextMain]_vars

====
